---- MODULE Spec2Model ----
(***************************************************************************)
(* mqm: keyed multi-queue dispatcher (MqmProcessor, MqmActiveSink,         *)
(* MqmSink, MqmSource) of src/mqm_tst/mqm_tst.cpp.                         *)
(*                                                                         *)
(* Caller threads run enqueue / subscribe / unsubscribe one shared-memory  *)
(* step at a time; every MqmActiveSink owns one std::async task; objects   *)
(* held by shared_ptr live while somebody holds them.                      *)
(***************************************************************************)
EXTENDS Integers, Sequences, FiniteSets, TLC

\* ------------------------------------------------------------------ bounds
Keys == {1, 2}
Threads == {1, 2}
Consumers == {"A", "B"}
\* total number of API calls made on the processor
MaxCalls == 4

\* nullptr / empty shared_ptr, and "no object"
None == 0

VARIABLES
    sources_,    \* MqmProcessor::sources_ : Key -> MqmSource id (None: no entry)
    sinks_,      \* MqmProcessor::sinks_   : Key -> MqmActiveSink id (None: no entry)
    sourcesMtx_, \* holder of MqmProcessor::sourcesMtx_ (a thread, or None)
    sinksMtx_,   \* holder of MqmProcessor::sinksMtx_ (a thread, or None)
    source,      \* heap of MqmSource objects: [key, values_, stopped_]
    sink,        \* heap of MqmActiveSink objects: [key, consumers_, locked, state]
    task,        \* MqmActiveSink::task_ of each sink: the worker lambda's locals
    thr,         \* caller threads: position in the call and its locals
    dtor,        \* ~MqmProcessor: position
    ncalls,      \* number of calls begun, per operation
    appended,    \* history: values appended to each MqmSource, in lock order
    dlog,        \* history: consume invocations of each sink, <<index, value>>
    creator,     \* history: per sink, the registration index of the subscribe
                 \*          that started its task (None: not started)
    enq,         \* history: every enqueue call, [key, res, afterUnsub, raced, src]
    unsubRet,    \* history: "torn"/"noop": an unsubscribe(k) returned (having
                 \*          erased a sink / none) and no subscribe(k) was
                 \*          called since; "no" otherwise
    closed,      \* history: registrations <<sink, index>> present when an
                 \*          unsubscribe that has since returned was called
    owes,        \* history: <<sink, index, value>>: value enqueued after the
                 \*          registration's subscribe had returned
    quiet,       \* history: per key, no call was ever made on it, or the last
                 \*          thing that happened on it is the return of an
                 \*          unsubscribe with no other call on it in progress
    flog         \* history: <<sink, position in dlog>> of the consume
                 \*          invocations that threw

prog == <<sources_, sourcesMtx_, sinks_, sinksMtx_, source, sink, task, thr, dtor>>
hist == <<ncalls, appended, dlog, creator, enq, unsubRet, closed, owes, quiet, flog>>
vars == <<sources_, sourcesMtx_, sinks_, sinksMtx_, source, sink, task, thr, dtor,
          ncalls, appended, dlog, creator, enq, unsubRet, closed, owes, quiet, flog>>

\* ------------------------------------------------------------------ helpers
Range(f) == {f[x] : x \in DOMAIN f}

IdleThr == [pc |-> "idle", op |-> "", key |-> None, cons |-> "", val |-> None,
            src |-> None, snk |-> None, created |-> FALSE,
            owed |-> {}, regs |-> {}, reg |-> <<>>, idem |-> FALSE,
            watch |-> FALSE]

\* std::future<void> task_ before start(): no shared state, destructor does not block
InvalidTask == [pc |-> "invalid", sourceWeak |-> None, source |-> None,
                values |-> <<>>, stopped |-> FALSE, ci |-> 0, vi |-> 0]

TotalCalls == ncalls.enqueue + ncalls.subscribe + ncalls.unsubscribe

\* a call may begin: the processor is alive, the bound on calls is not reached,
\* and the call is given to the first free caller thread (callers keep nothing
\* between calls, so which free thread makes a call is immaterial)
MayCall(t) ==
    /\ dtor.pc = "off"
    /\ TotalCalls < MaxCalls
    /\ thr[t].pc = "idle"
    /\ \A u \in Threads : u < t => thr[u].pc # "idle"

\* use_count() > 0 of an MqmSource: the map, a caller's temporary, a worker's local
SourceAlive(s) ==
    \/ \E k \in Keys : sources_[k] = s
    \/ \E t \in Threads : thr[t].src = s
    \/ \E d \in DOMAIN task : task[d].source = s

\* another owner of MqmActiveSink d besides thread t's own reference
SinkHeldElsewhere(d, t) ==
    \/ \E k \in Keys : sinks_[k] = d
    \/ \E u \in Threads \ {t} : thr[u].snk = d

\* the std::async task is not (or no longer) running: ~future returns at once
TaskFinished(d) == task[d].pc \in {"invalid", "exited"}
TaskRunning(d) == ~TaskFinished(d)

\* ------------------------------------------------------------------ MqmSource
\* mutant: enqueue does not look at the flag
enqueueThrows_NoCheck(s) == FALSE

\* MqmSource::enqueue: TRUE when it throws
enqueueThrows(s) == source[s].stopped_

\* MqmSource::enqueue, the non-throwing path
enqueueValues(s, v) == Append(source[s].values_, v)

\* mutant: stop leaves the flag alone
stop_NoFlag(src, s) == src

\* MqmSource::stop
stop(src, s) == [src EXCEPT ![s].stopped_ = TRUE]

\* mutant: the wait condition of get looks at stopped_ only, so a drainer
\* notified by enqueue goes back to waiting
getReady_NoNotify(s) == source[s].stopped_

\* MqmSource::get: the wait condition, the batch swapped out, the result
getReady(s) == source[s].values_ # <<>> \/ source[s].stopped_
getBatch(s) == source[s].values_
\* mutant: the batch is copied out instead of swapped out
getLeft_Copied(s) == source[s].values_
\* what values_.swap(values) leaves in the buffer: the cleared local vector
getLeft(s) == <<>>
getResult(s) == source[s].stopped_

\* the workers blocked in cv_.wait of queue s
Waiters(s) == {d \in DOMAIN task : task[d].pc = "wait" /\ task[d].source = s}

\* cv_.notify_one() of queue s: one of the waiters, if there is any, leaves
\* cv_.wait and tests the condition of get again
notify_one(s) ==
    IF Waiters(s) = {} THEN task' = task
    ELSE \E d \in Waiters(s) : task' = [task EXCEPT ![d].pc = "get"]

\* ------------------------------------------------------------------ MqmSink
\* MqmSink::consume: the loop nest "for c in consumers_: for v in values";
\* position after invocation (ci, vi) with n values in the batch
\* mutant: the inner loop does not start over for the next consumer
consumeNext_NoRestart(ci, vi, n) ==
    IF vi < n THEN <<ci, vi + 1>> ELSE <<ci + 1, vi>>

consumeNext(ci, vi, n) ==
    IF vi < n THEN <<ci, vi + 1>> ELSE <<ci + 1, 1>>

consumeDone(d) ==
    task[d].values = <<>> \/ task[d].ci > Len(sink[d].consumers_)

\* ------------------------------------------------------------------ Init
Init ==
    /\ sources_ = [k \in Keys |-> None]
    /\ sinks_ = [k \in Keys |-> None]
    /\ sourcesMtx_ = None
    /\ sinksMtx_ = None
    /\ source = <<>>
    /\ sink = <<>>
    /\ task = <<>>
    /\ thr = [t \in Threads |-> IdleThr]
    /\ dtor = [pc |-> "off", last |-> None, snk |-> None]
    /\ ncalls = [enqueue |-> 0, subscribe |-> 0, unsubscribe |-> 0]
    /\ appended = <<>>
    /\ dlog = <<>>
    /\ creator = <<>>
    /\ enq = <<>>
    /\ unsubRet = [k \in Keys |-> "no"]
    /\ closed = {}
    /\ owes = {}
    /\ quiet = [k \in Keys |-> TRUE]
    /\ flog = {}

\* ------------------------------------------------------------------ getSource
\* mutant: the lookup ignores the key and returns any queue of the map
getSourcePtr_AnyKey(k) ==
    IF \E j \in Keys : sources_[j] # None
    THEN sources_[CHOOSE j \in Keys : sources_[j] # None]
    ELSE Len(source) + 1

\* MqmProcessor::getSource: the pointer returned
getSourcePtr(k) ==
    IF sources_[k] # None THEN sources_[k] ELSE Len(source) + 1

\* MqmProcessor::getSource: insert-if-absent under sourcesMtx_, which is
\* taken and released inside the call
getSource(k) ==
    /\ sourcesMtx_ = None
    /\ sources_' = [sources_ EXCEPT ![k] = getSourcePtr(k)]
    /\ source' = IF sources_[k] # None THEN source
                 ELSE Append(source, [key |-> k, values_ |-> <<>>, stopped_ |-> FALSE])
    /\ appended' = IF sources_[k] # None THEN appended ELSE Append(appended, <<>>)

\* MqmProcessor::removeSource: sources_.find(key) under sourcesMtx_
removeSourceFinds(k) == sources_[k] # None

\* mutant: the stopped queue is left in the map
removeSourceErase_Kept(k) == sources_

\* MqmProcessor::removeSource: sources_.erase(i)
removeSourceErase(k) == [sources_ EXCEPT ![k] = None]

\* registrations <<d, i>> whose subscribe call has returned
RegReturned(d, i) ==
    /\ i \in 1..Len(sink[d].consumers_)
    /\ \A t \in Threads : thr[t].reg # <<d, i>>

\* ------------------------------------------------------------------ enqueue
\* what a specification records in the history besides what was appended and
\* delivered: "owes", the deliveries an enqueue owes to the registrations whose
\* subscribe has returned; "calls", how the calls on a key follow or overlap
\* each other (unsubRet, closed, quiet, the fields afterUnsub and raced of enq,
\* the fields owed, regs and idem of a caller)
CallEnqueue(t, k, obs) ==
    /\ MayCall(t)
    /\ thr' = [thr EXCEPT ![t] = [IdleThr EXCEPT !.pc = "e_getSource", !.op = "enqueue",
                                   !.key = k, !.val = Len(enq) + 1]]
    /\ enq' = Append(enq, [key |-> k, res |-> "pending", afterUnsub |-> unsubRet[k],
                           raced |-> /\ "calls" \in obs
                                     /\ \E u \in Threads : thr[u].op = "unsubscribe"
                                                           /\ thr[u].key = k,
                           src |-> None])
    /\ owes' = owes \cup
         IF "owes" \notin obs \/ sinks_[k] = None THEN {}
         ELSE {<<sinks_[k], i, Len(enq) + 1>> :
                 i \in {j \in 1..Len(sink[sinks_[k]].consumers_) : RegReturned(sinks_[k], j)}}
    /\ ncalls' = [ncalls EXCEPT !.enqueue = @ + 1]
    /\ quiet' = IF "calls" \in obs THEN [quiet EXCEPT ![k] = FALSE] ELSE quiet
    /\ UNCHANGED <<sourcesMtx_, sources_, sinks_, sinksMtx_, source, sink, task, dtor,
                   appended, dlog, creator, unsubRet, closed, flog>>

\* enqueue: getSource(key)
E_getSource(t) ==
    /\ thr[t].pc = "e_getSource"
    /\ getSource(thr[t].key)
    /\ thr' = [thr EXCEPT ![t].src = getSourcePtr(thr[t].key), ![t].pc = "e_enqueue"]
    /\ enq' = [enq EXCEPT ![thr[t].val].src = getSourcePtr(thr[t].key)]
    /\ UNCHANGED <<sourcesMtx_, sinks_, sinksMtx_, sink, task, dtor, ncalls, dlog, creator,
                   unsubRet, closed, owes, quiet, flog>>

\* enqueue: ->enqueue(std::move(value)) on the queue that the temporary
\* shared_ptr returned by getSource owns: under mtx_, throw or push and notify
E_enqueue(t) ==
    /\ thr[t].pc = "e_enqueue"
    /\ LET s == thr[t].src
           v == thr[t].val
       IN IF enqueueThrows(s)
          THEN /\ enq' = [enq EXCEPT ![v].res = "Stopped"]
               /\ UNCHANGED <<source, appended, task>>
          ELSE /\ source' = [source EXCEPT ![s].values_ = enqueueValues(s, v)]
               /\ appended' = [appended EXCEPT ![s] = Append(@, v)]
               /\ enq' = [enq EXCEPT ![v].res = "ok"]
               /\ notify_one(s)
    /\ thr' = [thr EXCEPT ![t].pc = "e_return"]
    /\ UNCHANGED <<sourcesMtx_, sources_, sinks_, sinksMtx_, sink, dtor, ncalls, dlog,
                   creator, unsubRet, closed, owes, quiet, flog>>

\* enqueue: the end of the full expression (or the unwinding of the throw)
\* destroys the temporary shared_ptr, and the call returns
E_return(t) ==
    /\ thr[t].pc = "e_return"
    /\ thr' = [thr EXCEPT ![t] = IdleThr]
    /\ UNCHANGED <<sourcesMtx_, sources_, sinks_, sinksMtx_, source, sink, task, dtor, hist>>

\* ------------------------------------------------------------------ subscribe
CallSubscribe(t, k, c, obs) ==
    /\ MayCall(t)
    /\ thr' = [thr EXCEPT ![t] = [IdleThr EXCEPT !.pc = "s_getSink", !.op = "subscribe",
                                   !.key = k, !.cons = c]]
    /\ unsubRet' = [unsubRet EXCEPT ![k] = "no"]
    /\ enq' = [v \in DOMAIN enq |->
                 IF enq[v].key = k /\ enq[v].res = "pending"
                 THEN [enq[v] EXCEPT !.afterUnsub = "no"] ELSE enq[v]]
    /\ ncalls' = [ncalls EXCEPT !.subscribe = @ + 1]
    /\ quiet' = IF "calls" \in obs THEN [quiet EXCEPT ![k] = FALSE] ELSE quiet
    /\ UNCHANGED <<sourcesMtx_, sources_, sinks_, sinksMtx_, source, sink, task, dtor,
                   appended, dlog, creator, closed, owes, flog>>

\* MqmProcessor::getSink: insert-if-absent under sinksMtx_
S_getSink(t) ==
    /\ thr[t].pc = "s_getSink"
    /\ sinksMtx_ = None
    /\ LET k == thr[t].key
           created == sinks_[k] = None
           d == IF created THEN Len(sink) + 1 ELSE sinks_[k]
       IN /\ sinks_' = [sinks_ EXCEPT ![k] = d]
          /\ sink' = IF created
                     THEN Append(sink, [key |-> k, consumers_ |-> <<>>,
                                        locked |-> FALSE, state |-> "alive"])
                     ELSE sink
          /\ task' = IF created THEN Append(task, InvalidTask) ELSE task
          /\ dlog' = IF created THEN Append(dlog, <<>>) ELSE dlog
          /\ creator' = IF created THEN Append(creator, None) ELSE creator
          /\ thr' = [thr EXCEPT ![t].snk = d, ![t].created = created,
                                ![t].pc = "s_subscribe"]
    /\ UNCHANGED <<sourcesMtx_, sources_, sinksMtx_, source, dtor, ncalls, appended, enq,
                   unsubRet, closed, owes, quiet, flog>>

\* MqmActiveSink::subscribe -> MqmSink::subscribe, under consumersMtx_
S_subscribe(t) ==
    /\ thr[t].pc = "s_subscribe"
    /\ LET d == thr[t].snk
       IN /\ ~sink[d].locked
          /\ sink' = [sink EXCEPT ![d].consumers_ = Append(@, thr[t].cons)]
          /\ thr' = [thr EXCEPT ![t].reg = <<d, Len(sink[d].consumers_) + 1>>,
                                ![t].pc = IF thr[t].created THEN "s_getSource"
                                          ELSE "s_return"]
    /\ UNCHANGED <<sourcesMtx_, sources_, sinks_, sinksMtx_, source, task, dtor, hist>>

\* mutant: start is given a queue of its own instead of the key's queue
S_getSource_Fresh(t) ==
    /\ thr[t].pc = "s_getSource"
    /\ sourcesMtx_ = None
    /\ sources_' = [sources_ EXCEPT ![thr[t].key] = Len(source) + 1]
    /\ source' = Append(source, [key |-> thr[t].key, values_ |-> <<>>,
                                 stopped_ |-> FALSE])
    /\ appended' = Append(appended, <<>>)
    /\ thr' = [thr EXCEPT ![t].src = Len(source) + 1, ![t].pc = "s_start"]
    /\ UNCHANGED <<sourcesMtx_, sinks_, sinksMtx_, sink, task, dtor, ncalls, dlog, creator, enq,
                   unsubRet, closed, owes, quiet, flog>>

\* subscribe, created: getSource(key), the argument of start
S_getSource(t) ==
    /\ thr[t].pc = "s_getSource"
    /\ getSource(thr[t].key)
    /\ thr' = [thr EXCEPT ![t].src = getSourcePtr(thr[t].key), ![t].pc = "s_start"]
    /\ UNCHANGED <<sourcesMtx_, sinks_, sinksMtx_, sink, task, dtor, ncalls, dlog, creator, enq,
                   unsubRet, closed, owes, quiet, flog>>

\* MqmActiveSink::start: task_ = std::async(launch::async, lambda)
S_start(t) ==
    /\ thr[t].pc = "s_start"
    /\ task' = [task EXCEPT ![thr[t].snk] =
                  [InvalidTask EXCEPT !.pc = "loop", !.sourceWeak = thr[t].src]]
    /\ thr' = [thr EXCEPT ![t].pc = "s_started"]
    /\ creator' = [creator EXCEPT ![thr[t].snk] = thr[t].reg[2]]
    /\ UNCHANGED <<sourcesMtx_, sources_, sinks_, sinksMtx_, source, sink, dtor,
                   ncalls, appended, dlog, enq, unsubRet, closed, owes, quiet, flog>>

\* subscribe, created: start has returned and the end of the full expression
\* destroys the temporary shared_ptr returned by getSource
S_started(t) ==
    /\ thr[t].pc = "s_started"
    /\ thr' = [thr EXCEPT ![t].src = None, ![t].pc = "s_return"]
    /\ UNCHANGED <<sourcesMtx_, sources_, sinks_, sinksMtx_, source, sink, task, dtor, hist>>

\* subscribe returns: the local `sink` is released; the last owner of the
\* MqmActiveSink runs its destructor
S_return(t) ==
    /\ thr[t].pc = "s_return"
    /\ IF SinkHeldElsewhere(thr[t].snk, t)
       THEN thr' = [thr EXCEPT ![t] = IdleThr]
       ELSE thr' = [thr EXCEPT ![t].pc = "s_join"]
    /\ UNCHANGED <<sourcesMtx_, sources_, sinks_, sinksMtx_, source, sink, task, dtor, hist>>

\* ~MqmActiveSink in subscribe's caller: ~future blocks until the task ends,
\* then sink_ is released
S_join(t) ==
    /\ thr[t].pc = "s_join"
    /\ TaskFinished(thr[t].snk)
    /\ sink' = [sink EXCEPT ![thr[t].snk].state = "destroyed"]
    /\ thr' = [thr EXCEPT ![t] = IdleThr]
    /\ UNCHANGED <<sourcesMtx_, sources_, sinks_, sinksMtx_, source, task, dtor, hist>>

\* ------------------------------------------------------------------ unsubscribe
CallUnsubscribe(t, k, obs) ==
    /\ MayCall(t)
    /\ thr' = [thr EXCEPT ![t] =
         IF "calls" \notin obs
         THEN [IdleThr EXCEPT !.pc = "u_removeSource", !.op = "unsubscribe", !.key = k]
         ELSE [IdleThr EXCEPT !.pc = "u_removeSource", !.op = "unsubscribe", !.key = k,
            !.watch = TRUE,
            !.idem = quiet[k],
            !.owed = IF sinks_[k] # None /\ sink[sinks_[k]].consumers_ # <<>>
                     THEN {v \in DOMAIN enq :
                             /\ enq[v].key = k /\ enq[v].res = "ok"
                             /\ \A u \in Threads :
                                   thr[u].op = "enqueue" => thr[u].val # v}
                     ELSE {},
            !.regs = IF sinks_[k] = None THEN {}
                     ELSE {<<sinks_[k], i>> :
                             i \in {j \in 1..Len(sink[sinks_[k]].consumers_) :
                                      RegReturned(sinks_[k], j)}}]]
    /\ enq' = [v \in DOMAIN enq |->
                 IF "calls" \in obs /\ enq[v].key = k /\ enq[v].res = "pending"
                 THEN [enq[v] EXCEPT !.raced = TRUE] ELSE enq[v]]
    /\ ncalls' = [ncalls EXCEPT !.unsubscribe = @ + 1]
    /\ quiet' = IF "calls" \in obs THEN [quiet EXCEPT ![k] = FALSE] ELSE quiet
    /\ UNCHANGED <<sourcesMtx_, sources_, sinks_, sinksMtx_, source, sink, task, dtor,
                   appended, dlog, creator, unsubRet, closed, owes, flog>>

\* mutant: the queue is looked up with getSource, which inserts it when absent
U_removeSource_GetSource(t) ==
    /\ thr[t].pc = "u_removeSource"
    /\ sourcesMtx_ = None
    /\ LET k == thr[t].key
           absent == sources_[k] = None
       IN /\ sources_' = [sources_ EXCEPT ![k] = getSourcePtr(k)]
          /\ source' = stop(IF absent
                            THEN Append(source, [key |-> k, values_ |-> <<>>,
                                                 stopped_ |-> FALSE])
                            ELSE source, getSourcePtr(k))
          /\ appended' = IF absent THEN Append(appended, <<>>) ELSE appended
          /\ notify_one(getSourcePtr(k))
    /\ sourcesMtx_' = t
    /\ thr' = [thr EXCEPT ![t].pc = "u_erase"]
    /\ UNCHANGED <<sinks_, sinksMtx_, sink, dtor, ncalls, dlog, creator, enq,
                   unsubRet, closed, owes, quiet, flog>>

\* unsubscribe: removeSource(key) up to line 214: takes sourcesMtx_ and looks
\* the key up; with no entry it returns; the queue of an entry is stopped
\* (MqmSource::stop, under mtx_, notifies one waiter) with sourcesMtx_ held
U_removeSource(t) ==
    /\ thr[t].pc = "u_removeSource"
    /\ sourcesMtx_ = None
    /\ IF removeSourceFinds(thr[t].key)
       THEN /\ source' = stop(source, sources_[thr[t].key])
            /\ notify_one(sources_[thr[t].key])
            /\ sourcesMtx_' = t
            /\ thr' = [thr EXCEPT ![t].pc = "u_erase"]
       ELSE /\ UNCHANGED <<source, task, sourcesMtx_>>
            /\ thr' = [thr EXCEPT ![t].pc = "u_removeSink"]
    /\ UNCHANGED <<sources_, sinks_, sinksMtx_, sink, dtor, hist>>

\* unsubscribe: removeSource(key), lines 215-216: the entry is erased, which
\* releases the map's reference to the stopped queue, and sourcesMtx_ is
\* released
U_removeSourceErase(t) ==
    /\ thr[t].pc = "u_erase"
    /\ sources_' = removeSourceErase(thr[t].key)
    /\ sourcesMtx_' = None
    /\ thr' = [thr EXCEPT ![t].pc = "u_removeSink"]
    /\ UNCHANGED <<sinks_, sinksMtx_, source, sink, task, dtor, hist>>

\* what the returning unsubscribe leaves in the history
UnsubscribeReturns(t, tore) ==
    /\ unsubRet' = IF ~thr[t].watch THEN unsubRet
                   ELSE [unsubRet EXCEPT ![thr[t].key] = IF tore THEN "torn" ELSE "noop"]
    /\ closed' = closed \cup thr[t].regs
    /\ quiet' = IF ~thr[t].watch THEN quiet
                ELSE [quiet EXCEPT ![thr[t].key] =
                        \A u \in Threads \ {t} :
                            thr[u].pc = "idle" \/ thr[u].key # thr[t].key]
    /\ UNCHANGED <<ncalls, appended, dlog, creator, enq, owes, flog>>

\* MqmProcessor::removeSink: sinks_.erase(key) under sinksMtx_; erasing the last
\* owner runs ~MqmActiveSink inside erase, with sinksMtx_ held
U_removeSink(t) ==
    /\ thr[t].pc = "u_removeSink"
    /\ sinksMtx_ = None
    /\ LET k == thr[t].key
           d == sinks_[k]
       IN /\ sinks_' = [sinks_ EXCEPT ![k] = None]
          /\ IF d = None \/ (\E u \in Threads : thr[u].snk = d)
             THEN /\ thr' = [thr EXCEPT ![t] = IdleThr]
                  /\ sinksMtx_' = None
                  /\ UnsubscribeReturns(t, d # None)
             ELSE /\ thr' = [thr EXCEPT ![t].snk = d, ![t].pc = "u_join"]
                  /\ sinksMtx_' = t
                  /\ UNCHANGED hist
    /\ UNCHANGED <<sourcesMtx_, sources_, source, sink, task, dtor>>

\* ~MqmActiveSink inside removeSink: ~future blocks until the task ends; then
\* sink_ is released, the lock is dropped and unsubscribe returns
U_join(t) ==
    /\ thr[t].pc = "u_join"
    /\ TaskFinished(thr[t].snk)
    /\ sink' = [sink EXCEPT ![thr[t].snk].state = "destroyed"]
    /\ sinksMtx_' = None
    /\ thr' = [thr EXCEPT ![t] = IdleThr]
    /\ UnsubscribeReturns(t, TRUE)
    /\ UNCHANGED <<sourcesMtx_, sources_, sinks_, source, task, dtor>>

\* ------------------------------------------------------------------ worker
\* the lambda of MqmActiveSink::start, top of the loop body:
\* sourceWeak.lock(), sinkWeak.lock(), "if (!source || !sink) return"
W_lock(d) ==
    /\ task[d].pc = "loop"
    /\ IF SourceAlive(task[d].sourceWeak) /\ sink[d].state = "alive"
       THEN task' = [task EXCEPT ![d].source = task[d].sourceWeak, ![d].pc = "get"]
       ELSE task' = [task EXCEPT ![d].pc = "exited"]
    /\ UNCHANGED <<sourcesMtx_, sources_, sinks_, sinksMtx_, source, sink, thr, dtor, hist>>

\* stopped = source->get(values), under mtx_: with the buffer empty and the
\* queue not stopped the worker enters cv_.wait, which it leaves only when it
\* is notified (and then it is here again); otherwise it swaps the buffer out
W_get(d) ==
    /\ task[d].pc = "get"
    /\ LET s == task[d].source
       IN IF getReady(s)
          THEN /\ task' = [task EXCEPT ![d].values = getBatch(s),
                                       ![d].stopped = getResult(s),
                                       ![d].pc = "consume"]
               /\ source' = [source EXCEPT ![s].values_ = getLeft(s)]
          ELSE /\ task' = [task EXCEPT ![d].pc = "wait"]
               /\ source' = source
    /\ UNCHANGED <<sourcesMtx_, sources_, sinks_, sinksMtx_, sink, thr, dtor, hist>>

\* sink->consume(values): takes consumersMtx_
W_consumeLock(d) ==
    /\ task[d].pc = "consume"
    /\ ~sink[d].locked
    /\ sink' = [sink EXCEPT ![d].locked = TRUE]
    /\ task' = [task EXCEPT ![d].ci = 1, ![d].vi = 1, ![d].pc = "invoke"]
    /\ UNCHANGED <<sourcesMtx_, sources_, sinks_, sinksMtx_, source, thr, dtor, hist>>

\* one c->consume(key_, v) of the loop nest
W_invoke(d) ==
    /\ task[d].pc = "invoke"
    /\ ~consumeDone(d)
    /\ dlog' = [dlog EXCEPT ![d] = Append(@, <<task[d].ci, task[d].values[task[d].vi]>>)]
    /\ LET nx == consumeNext(task[d].ci, task[d].vi, Len(task[d].values))
       IN task' = [task EXCEPT ![d].ci = nx[1], ![d].vi = nx[2]]
    /\ UNCHANGED <<sourcesMtx_, sources_, sinks_, sinksMtx_, source, sink, thr, dtor,
                   ncalls, appended, creator, enq, unsubRet, closed, owes, quiet, flog>>

\* one c->consume(key_, v) that throws a std::exception: the handler inside
\* the inner loop reports it and the loop nest goes on
W_invokeThrows(d) ==
    /\ task[d].pc = "invoke"
    /\ ~consumeDone(d)
    /\ dlog' = [dlog EXCEPT ![d] = Append(@, <<task[d].ci, task[d].values[task[d].vi]>>)]
    /\ flog' = flog \cup {<<d, Len(dlog[d]) + 1>>}
    /\ LET nx == consumeNext(task[d].ci, task[d].vi, Len(task[d].values))
       IN task' = [task EXCEPT ![d].ci = nx[1], ![d].vi = nx[2]]
    /\ UNCHANGED <<sourcesMtx_, sources_, sinks_, sinksMtx_, source, sink, thr, dtor,
                   ncalls, appended, creator, enq, unsubRet, closed, owes, quiet>>

\* one c->consume(key_, v) that throws an object that is not a std::exception:
\* the handler at line 132 does not match, so the exception leaves the loop
\* nest of MqmSink::consume with consumersMtx_ still held
W_invokeThrowsOther(d) ==
    /\ task[d].pc = "invoke"
    /\ ~consumeDone(d)
    /\ dlog' = [dlog EXCEPT ![d] = Append(@, <<task[d].ci, task[d].values[task[d].vi]>>)]
    /\ flog' = flog \cup {<<d, Len(dlog[d]) + 1>>}
    /\ task' = [task EXCEPT ![d].pc = "unwind"]
    /\ UNCHANGED <<sourcesMtx_, sources_, sinks_, sinksMtx_, source, sink, thr, dtor,
                   ncalls, appended, creator, enq, unsubRet, closed, owes, quiet>>

\* the exception leaves MqmSink::consume: unwinding releases consumersMtx_
W_unwind(d) ==
    /\ task[d].pc = "unwind"
    /\ sink' = [sink EXCEPT ![d].locked = FALSE]
    /\ task' = [task EXCEPT ![d].pc = "propagate"]
    /\ UNCHANGED <<sourcesMtx_, sources_, sinks_, sinksMtx_, source, thr, dtor, hist>>

\* the handler at line 178 does not match either: the exception leaves the
\* lambda, whose sink, source and values are destroyed, and the task ends
\* with the exception stored in its future
W_propagate(d) ==
    /\ task[d].pc = "propagate"
    /\ task' = [task EXCEPT ![d].source = None, ![d].values = <<>>,
                            ![d].ci = 0, ![d].vi = 0, ![d].pc = "exited"]
    /\ UNCHANGED <<sourcesMtx_, sources_, sinks_, sinksMtx_, source, sink, thr, dtor, hist>>

\* consume returns: consumersMtx_ is released (line 136)
W_consumeEnd(d) ==
    /\ task[d].pc = "invoke"
    /\ consumeDone(d)
    /\ sink' = [sink EXCEPT ![d].locked = FALSE]
    /\ task' = [task EXCEPT ![d].pc = "iterationEnd"]
    /\ UNCHANGED <<sourcesMtx_, sources_, sinks_, sinksMtx_, source, thr, dtor, hist>>

\* the iteration ends (line 177): the locals sink and source are released;
\* the loop ends when get reported stopped (line 167)
W_iterationEnd(d) ==
    /\ task[d].pc = "iterationEnd"
    /\ task' = [task EXCEPT ![d].source = None, ![d].values = <<>>,
                            ![d].ci = 0, ![d].vi = 0,
                            ![d].pc = IF task[d].stopped THEN "exited" ELSE "loop"]
    /\ UNCHANGED <<sourcesMtx_, sources_, sinks_, sinksMtx_, source, sink, thr, dtor, hist>>

Worker(d) ==
    \/ W_lock(d) \/ W_get(d) \/ W_consumeLock(d) \/ W_invoke(d)
    \/ W_consumeEnd(d) \/ W_iterationEnd(d)

\* ------------------------------------------------------------------ ~MqmProcessor
\* the destructor runs when no call is in progress on the object
DtorBegin ==
    /\ dtor.pc = "off"
    /\ \A t \in Threads : thr[t].pc = "idle"
    /\ dtor' = [dtor EXCEPT !.pc = "stop"]
    /\ UNCHANGED <<sourcesMtx_, sources_, sinks_, sinksMtx_, source, sink, task, thr, hist>>

\* mutant: the destructor body leaves the queues running
DtorStop_NoStop(k) ==
    /\ dtor.pc = "stop"
    /\ sources_[k] # None /\ k > dtor.last
    /\ \A j \in Keys : (sources_[j] # None /\ j > dtor.last) => k <= j
    /\ dtor' = [dtor EXCEPT !.last = k]
    /\ UNCHANGED <<sourcesMtx_, sources_, sinks_, sinksMtx_, source, sink, task, thr, hist>>

\* body: for (auto& s : sources_) s.second->stop();  (std::map order)
DtorStop(k) ==
    /\ dtor.pc = "stop"
    /\ sources_[k] # None /\ k > dtor.last
    /\ \A j \in Keys : (sources_[j] # None /\ j > dtor.last) => k <= j
    /\ source' = stop(source, sources_[k])
    /\ notify_one(sources_[k])
    /\ dtor' = [dtor EXCEPT !.last = k]
    /\ UNCHANGED <<sourcesMtx_, sources_, sinks_, sinksMtx_, sink, thr, hist>>

\* mutant: sources_ declared after sinks_, so the queues are released first
DtorStopEnd_SourcesFirst ==
    /\ dtor.pc = "stop"
    /\ \A j \in Keys : ~(sources_[j] # None /\ j > dtor.last)
    /\ dtor' = [dtor EXCEPT !.pc = "sinks", !.last = None]
    /\ sources_' = [k \in Keys |-> None]
    /\ UNCHANGED <<sourcesMtx_, sinks_, sinksMtx_, source, sink, task, thr, hist>>

\* the loop is over: members are destroyed in reverse order of declaration,
\* sinks_ (line 196) before sources_ (line 193)
DtorStopEnd ==
    /\ dtor.pc = "stop"
    /\ \A j \in Keys : ~(sources_[j] # None /\ j > dtor.last)
    /\ dtor' = [dtor EXCEPT !.pc = "sinks", !.last = None]
    /\ UNCHANGED <<sourcesMtx_, sources_, sinks_, sinksMtx_, source, sink, task, thr, hist>>

\* ~map of sinks_: an entry is released, which runs ~MqmActiveSink
DtorSink(k) ==
    /\ dtor.pc = "sinks"
    /\ sinks_[k] # None
    /\ sinks_' = [sinks_ EXCEPT ![k] = None]
    /\ dtor' = [dtor EXCEPT !.pc = "join", !.snk = sinks_[k]]
    /\ UNCHANGED <<sourcesMtx_, sources_, sinksMtx_, source, sink, task, thr, hist>>

\* ~MqmActiveSink in the destructor: ~future blocks until the task ends
DtorJoin ==
    /\ dtor.pc = "join"
    /\ TaskFinished(dtor.snk)
    /\ sink' = [sink EXCEPT ![dtor.snk].state = "destroyed"]
    /\ dtor' = [dtor EXCEPT !.pc = "sinks", !.snk = None]
    /\ UNCHANGED <<sourcesMtx_, sources_, sinks_, sinksMtx_, source, task, thr, hist>>

\* ~map of sources_: every queue is released
DtorSources ==
    /\ dtor.pc = "sinks"
    /\ \A k \in Keys : sinks_[k] = None
    /\ sources_' = [k \in Keys |-> None]
    /\ dtor' = [dtor EXCEPT !.pc = "done"]
    /\ UNCHANGED <<sourcesMtx_, sinks_, sinksMtx_, source, sink, task, thr, hist>>

Dtor ==
    \/ DtorBegin
    \/ \E k \in Keys : DtorStop(k)
    \/ DtorStopEnd
    \/ \E k \in Keys : DtorSink(k)
    \/ DtorJoin
    \/ DtorSources

\* ------------------------------------------------------------------ Next
\* a caller begins a call on a key of KS, subscribing a consumer of CS
Call(t, KS, CS, obs) ==
    \/ \E k \in KS : CallEnqueue(t, k, obs)
    \/ \E k \in KS, c \in CS : CallSubscribe(t, k, c, obs)
    \/ \E k \in KS : CallUnsubscribe(t, k, obs)

Step(t) ==
    \/ E_getSource(t) \/ E_enqueue(t) \/ E_return(t)
    \/ S_getSink(t) \/ S_subscribe(t) \/ S_getSource(t) \/ S_start(t) \/ S_started(t)
    \/ S_return(t) \/ S_join(t)
    \/ U_removeSource(t) \/ U_removeSourceErase(t) \/ U_removeSink(t) \/ U_join(t)

OneConsumer == {"A"}

Next ==
    \/ \E t \in Threads : Call(t, Keys, OneConsumer, {})
    \/ \E t \in Threads : Step(t)
    \/ \E d \in DOMAIN task : Worker(d)
    \/ Dtor

\* calls on any key, two caller threads, one consumer object; only what was
\* appended and delivered is recorded
Spec == Init /\ [][Next]_vars

\* the same program with every call made on one key, with two consumer
\* objects and the history of the calls
OneKey == {1}

\* the consumer objects that a subscribe call was given so far
Subscribed ==
    {thr[t].cons : t \in {u \in Threads : thr[u].op = "subscribe"}}
        \cup UNION {Range(sink[d].consumers_) : d \in DOMAIN sink}

\* consumer objects are interchangeable: the first one that is ever
\* subscribed is called "A"; after it any object, "A" again included
AnyConsumer == IF "A" \in Subscribed THEN Consumers ELSE {"A"}

\* the same, with every consumer object subscribed once
NewConsumer == IF "A" \in Subscribed THEN Consumers \ Subscribed ELSE {"A"}

NextOneKey ==
    \/ \E t \in Threads : Call(t, OneKey, AnyConsumer, {"calls"})
    \/ \E t \in Threads : Step(t)
    \/ \E d \in DOMAIN task : Worker(d)
    \/ Dtor

SpecOneKey == Init /\ [][NextOneKey]_vars

\* one caller making its calls one after the other on one key: only the
\* scheduling of the workers varies (the caller's reference to a sink is then
\* never the last one, so subscribe never runs ~MqmActiveSink)
OneCaller == {1}

NextOneCaller ==
    \/ \E t \in OneCaller : Call(t, OneKey, Consumers, {"calls"})
    \/ \E t \in OneCaller :
          \/ E_getSource(t) \/ E_enqueue(t) \/ E_return(t)
          \/ S_getSink(t) \/ S_subscribe(t) \/ S_getSource(t) \/ S_start(t) \/ S_started(t)
          \/ S_return(t)
          \/ U_removeSource(t) \/ U_removeSourceErase(t) \/ U_removeSink(t) \/ U_join(t)
    \/ \E d \in DOMAIN task : Worker(d)
    \/ Dtor

SpecOneCaller == Init /\ [][NextOneCaller]_vars

\* one caller making its calls one after the other on any key, one consumer
\* object
StepAlone(t) ==
    \/ E_getSource(t) \/ E_enqueue(t) \/ E_return(t)
    \/ S_getSink(t) \/ S_subscribe(t) \/ S_getSource(t) \/ S_start(t) \/ S_started(t)
    \/ S_return(t)
    \/ U_removeSource(t) \/ U_removeSourceErase(t) \/ U_removeSink(t) \/ U_join(t)

NextTwoKeys ==
    \/ \E t \in OneCaller : Call(t, Keys, OneConsumer, {"calls"})
    \/ \E t \in OneCaller : StepAlone(t)
    \/ \E d \in DOMAIN task : Worker(d)
    \/ Dtor

SpecTwoKeys == Init /\ [][NextTwoKeys]_vars

\* the same, with consumers that may throw
NextFailure ==
    \/ NextOneCaller
    \/ \E d \in DOMAIN task : W_invokeThrows(d)
    \/ \E d \in DOMAIN task : W_invokeThrowsOther(d)
    \/ \E d \in DOMAIN task : W_unwind(d)
    \/ \E d \in DOMAIN task : W_propagate(d)

SpecFailure == Init /\ [][NextFailure]_vars

\* scheduling: every thread that can take a step eventually takes one (caller
\* threads inside a call, std::async tasks, the thread inside the
\* destructor); nothing obliges a caller to begin a call, or the owner to
\* destroy the processor
SinkIds == 1..MaxCalls
WorkerOf(d) == d \in DOMAIN task /\ Worker(d)

DtorRun ==
    \/ \E k \in Keys : DtorStop(k)
    \/ DtorStopEnd
    \/ \E k \in Keys : DtorSink(k)
    \/ DtorJoin
    \/ DtorSources

Fairness ==
    /\ \A t \in Threads : WF_vars(Step(t))
    /\ \A d \in SinkIds : WF_vars(WorkerOf(d))
    /\ WF_vars(DtorRun)

\* one key and one consumer object, fair scheduling; only what was appended
\* and delivered is recorded
NextShutdown ==
    \/ \E t \in Threads : Call(t, OneKey, OneConsumer, {})
    \/ \E t \in Threads : Step(t)
    \/ \E d \in DOMAIN task : Worker(d)
    \/ Dtor

SpecShutdown == Init /\ [][NextShutdown]_vars /\ Fairness

\* one caller making its calls one after the other on one key, fair scheduling
SpecSequential == Init /\ [][NextOneCaller]_vars /\ Fairness

\* a key that is never unsubscribed, in a registry that is not shut down;
\* each consumer object subscribes once
NextDelivery ==
    \/ \E t \in Threads : CallEnqueue(t, 1, {"owes"})
    \/ \E t \in Threads, c \in NewConsumer : CallSubscribe(t, 1, c, {"owes"})
    \/ \E t \in Threads :
          \/ E_getSource(t) \/ E_enqueue(t) \/ E_return(t)
          \/ S_getSink(t) \/ S_subscribe(t) \/ S_getSource(t) \/ S_start(t) \/ S_started(t)
          \/ S_return(t)
    \/ \E d \in DOMAIN task : Worker(d)

SpecDelivery == Init /\ [][NextDelivery]_vars /\ Fairness

\* ------------------------------------------------------------------ observations
\* values received through registration i of sink d, in order of receipt
RECURSIVE RegValues(_, _)
RegValues(log, i) ==
    IF log = <<>> THEN <<>>
    ELSE IF Head(log)[1] = i THEN <<Head(log)[2]>> \o RegValues(Tail(log), i)
         ELSE RegValues(Tail(log), i)

\* values received by consumer object c through sink d, in order of receipt
RECURSIVE ConsumerValues(_, _, _)
ConsumerValues(log, cs, c) ==
    IF log = <<>> THEN <<>>
    ELSE IF cs[Head(log)[1]] = c
         THEN <<Head(log)[2]>> \o ConsumerValues(Tail(log), cs, c)
         ELSE ConsumerValues(Tail(log), cs, c)

\* a is an order-preserving subsequence of b (each element of b used at most once)
RECURSIVE IsSubseq(_, _)
IsSubseq(a, b) ==
    IF a = <<>> THEN TRUE
    ELSE IF b = <<>> THEN FALSE
    ELSE IF Head(a) = Head(b) THEN IsSubseq(Tail(a), Tail(b))
    ELSE IsSubseq(a, Tail(b))

\* value v was passed to some consumer of its key
Delivered(v) ==
    \E d \in DOMAIN dlog :
        /\ sink[d].key = enq[v].key
        /\ \E p \in DOMAIN dlog[d] : dlog[d][p][2] = v

\* thread t's call returns in this step
Returns(t, op) == thr[t].op = op /\ thr[t].pc # "idle" /\ thr'[t].pc = "idle"

\* ------------------------------------------------------------------ claims

\* C1: every value whose enqueue(K, v) returned successfully before
\* unsubscribe(K) was called on a key with a subscribed consumer has been
\* delivered to a consumer of K when that unsubscribe(K) returns.
C1_DrainedWhenUnsubscribeReturns ==
    [][\A t \in Threads :
          Returns(t, "unsubscribe") => \A v \in thr[t].owed : Delivered(v)']_vars

\* C4: once unsubscribe(K) has returned, no consumer registration that was
\* subscribed to K when that call began is invoked again.
C4_NoLateDelivery ==
    [][\A d \in DOMAIN dlog :
          Len(dlog'[d]) > Len(dlog[d]) =>
              <<d, dlog'[d][Len(dlog'[d])][1]>> \notin closed]_vars

\* C9: in every reachable state each key has at most one worker that is
\* running (the claim's third conjunct; it also bounds the live queue and
\* dispatcher objects by one).
C9_AtMostOneWorkerPerKey ==
    \A k \in Keys :
        Cardinality({d \in DOMAIN task : sink[d].key = k /\ TaskRunning(d)}) <= 1

\* C10: no call on another key is ever kept waiting for a registry map lock by
\* a thread that holds the lock while it waits for a worker whose consumer has
\* not returned.
C10_OtherKeysNotStalled ==
    \A t \in Threads, u \in Threads :
        ~ /\ thr[t].pc = "u_join" /\ sinksMtx_ = t
          /\ task[thr[t].snk].pc = "invoke" /\ ~consumeDone(thr[t].snk)
          /\ thr[u].pc = "s_getSink" /\ thr[u].key # thr[t].key

\* the values appended to the queue sink d's worker is attached to
Attached(d) ==
    IF task[d].sourceWeak = None THEN <<>> ELSE appended[task[d].sourceWeak]

\* C2 (as claimed): an enqueue(K, v) made after an unsubscribe(K) that tore
\* K's pipeline down has returned, with no subscribe(K) in between, fails with
\* Stopped and v is never delivered.
C2_EnqueueAfterUnsubscribeStopped ==
    \A v \in DOMAIN enq :
        (enq[v].afterUnsub = "torn" /\ enq[v].res # "pending")
            => (enq[v].res = "Stopped" /\ ~Delivered(v))

\* C2 (amended): an enqueue(K, v) made after unsubscribe(K) has returned, with
\* no subscribe(K) in between and no unsubscribe(K) overlapping it, succeeds
\* and appends v to the queue getSource finds or creates (from which the
\* consumer of a later subscribe(K) can receive it); an enqueue fails with
\* Stopped only when an unsubscribe(K) overlaps it, and then v is appended to
\* no queue and never delivered.
C2_EnqueueAfterUnsubscribeSucceeds ==
    \A v \in DOMAIN enq :
        /\ (enq[v].afterUnsub # "no" /\ ~enq[v].raced /\ enq[v].res # "pending")
             => /\ enq[v].res = "ok"
                /\ \E p \in DOMAIN appended[enq[v].src] : appended[enq[v].src][p] = v
        /\ enq[v].res = "Stopped"
             => /\ enq[v].raced
                /\ \A s \in DOMAIN appended : \A p \in DOMAIN appended[s] :
                       appended[s][p] # v
                /\ ~Delivered(v)

\* a value enqueued after an unsubscribe that tore the pipeline down had
\* returned was appended and has been delivered
C2_Witness ==
    \E v \in DOMAIN enq :
        /\ enq[v].afterUnsub = "torn" /\ ~enq[v].raced /\ enq[v].res = "ok"
        /\ Delivered(v)

\* C3 (as claimed): the values a consumer has received for a key are an
\* order-preserving, duplicate-free subsequence of the values appended to the
\* key's queue.
C3_FifoPerConsumer ==
    \A d \in DOMAIN dlog : \A c \in Consumers :
        IsSubseq(ConsumerValues(dlog[d], sink[d].consumers_, c), Attached(d))

\* C3 (amended): for every registration of a consumer (every entry of a
\* sink's consumer list) the values received through it are an
\* order-preserving, duplicate-free subsequence of the values appended to the
\* queue its worker is attached to, in the order enqueue calls took the lock.
C3_FifoPerRegistration ==
    \A d \in DOMAIN dlog : \A i \in 1..Len(sink[d].consumers_) :
        IsSubseq(RegValues(dlog[d], i), Attached(d))

\* two racing enqueues appended in the reverse of their call order, and
\* received in the order appended
C3_Witness ==
    \E d \in DOMAIN dlog : \E i \in 1..Len(sink[d].consumers_) :
        Attached(d) = <<2, 1>> /\ RegValues(dlog[d], i) = <<2, 1>>

\* C5: when the destructor completes and unsubscribe was never called, the
\* consumer whose subscribe started a key's worker has received exactly the
\* values enqueued for that key, once each, in enqueue order; with one
\* consumer on the key the number of invocations equals the number enqueued.
C5_LosslessShutdown ==
    (dtor.pc = "done" /\ ncalls.unsubscribe = 0) =>
        \A d \in DOMAIN sink :
            LET mine == {v \in DOMAIN enq : enq[v].key = sink[d].key}
            IN /\ creator[d] # None
               /\ \A v \in mine : enq[v].res = "ok"
               /\ Range(Attached(d)) = mine
               /\ RegValues(dlog[d], creator[d]) = Attached(d)
               /\ Len(sink[d].consumers_) = 1 => Len(dlog[d]) = Cardinality(mine)

C5_Witness ==
    /\ dtor.pc = "done" /\ ncalls.unsubscribe = 0
    /\ \E d \in DOMAIN sink :
          /\ Len(sink[d].consumers_) = 1
          /\ Len(RegValues(dlog[d], creator[d])) = 3

\* C8: while a batch is dispatched, the invocations made so far are those of
\* the loop "each consumer in registration order, each value in batch order";
\* so an earlier registration receives a value before a later one does, and
\* every registration receives its values in enqueue order.
C8_RegistrationOrderBroadcast ==
    \A d \in DOMAIN task :
        /\ task[d].pc = "invoke" =>
             LET n == Len(task[d].values)
                 cnt == (task[d].ci - 1) * n + (task[d].vi - 1)
                 L == Len(dlog[d])
             IN /\ cnt <= L
                /\ \A p \in 1..cnt :
                     dlog[d][L - cnt + p] =
                        <<((p - 1) \div n) + 1, task[d].values[((p - 1) % n) + 1]>>
        /\ \A p \in DOMAIN dlog[d], q \in DOMAIN dlog[d] :
             (dlog[d][p][2] = dlog[d][q][2] /\ dlog[d][p][1] < dlog[d][q][1]) => p < q
        /\ \A i \in 1..Len(sink[d].consumers_) :
             IsSubseq(RegValues(dlog[d], i), Attached(d))

C8_Witness ==
    \E d \in DOMAIN task :
        /\ sink[d].consumers_ = <<"A", "B">>
        /\ task[d].pc = "invoke"
        /\ dlog[d] = <<<<1, 1>>, <<1, 2>>, <<2, 1>>, <<2, 2>>>>

\* the values of a that are in S, in a's order
RECURSIVE Restrict(_, _)
Restrict(a, S) ==
    IF a = <<>> THEN <<>>
    ELSE IF Head(a) \in S THEN <<Head(a)>> \o Restrict(Tail(a), S)
         ELSE Restrict(Tail(a), S)

\* owed deliveries not made yet
Undelivered ==
    {o \in owes : \A p \in DOMAIN dlog[o[1]] : dlog[o[1]][p] # <<o[2], o[3]>>}

\* C6: on a key that is never unsubscribed, in a registry that is not shut
\* down, every value whose enqueue started after a consumer's subscribe had
\* returned is eventually received by that consumer, and two consumers of the
\* key receive the values they have in common in the same order.
C6_EventualDelivery ==
    /\ (Undelivered # {}) ~> (Undelivered = {})
    /\ [](\A d \in DOMAIN dlog :
            \A i \in 1..Len(sink[d].consumers_), j \in 1..Len(sink[d].consumers_) :
               Restrict(RegValues(dlog[d], i), Range(RegValues(dlog[d], j)))
                 = Restrict(RegValues(dlog[d], j), Range(RegValues(dlog[d], i))))

C6_Witness ==
    /\ Cardinality(owes) = 3 /\ Undelivered = {}
    /\ \E d \in DOMAIN dlog :
          /\ Len(sink[d].consumers_) = 2
          /\ Len(RegValues(dlog[d], 1)) = 2 /\ Len(RegValues(dlog[d], 2)) = 2

\* C7: the destructor stops every queue of the map before it releases a
\* dispatcher, releases the queues last and only when no worker is running,
\* and, once begun, completes.
C7_ShutdownOrderedAndCompletes ==
    /\ [](dtor.pc \in {"sinks", "join", "done"} =>
            \A k \in Keys : sources_[k] # None => source[sources_[k]].stopped_)
    /\ [][dtor.pc \in {"stop", "sinks", "join"} /\ sources_' # sources_ =>
            /\ dtor'.pc = "done"
            /\ \A k \in Keys : sinks_[k] = None
            /\ \A d \in DOMAIN task : TaskFinished(d)]_vars
    /\ [](dtor.pc = "done" => \A d \in DOMAIN task : TaskFinished(d))
    /\ (dtor.pc = "stop") ~> (dtor.pc = "done")

\* shutdown completed after it had to wake and wait for a worker
C7_Witness ==
    /\ dtor.pc = "done" /\ ncalls.unsubscribe = 0
    /\ \E d \in DOMAIN task : task[d].pc = "exited" /\ Len(dlog[d]) = 2

\* C11: an unsubscribe(K) called on a key on which no call was ever made, or
\* right after an unsubscribe(K) has returned, with no other call on K in
\* progress, leaves both maps, every queue, every dispatcher with its consumer
\* list and worker, and everything delivered exactly as they are, from the
\* call to its return, and it never waits for a worker.
C11_UnsubscribeIdempotent ==
    [][(\E t \in Threads : thr[t].op = "unsubscribe" /\ thr[t].idem) =>
          /\ <<sources_, sinks_, sinksMtx_, source, sink, task, dlog, appended>>'
                = <<sources_, sinks_, sinksMtx_, source, sink, task, dlog, appended>>
          /\ \A t \in Threads :
                (thr[t].op = "unsubscribe" /\ thr[t].idem) =>
                    thr'[t].pc \in {"u_removeSource", "u_removeSink", "idle"}]_vars

\* the second of two unsubscribes in a row, the first of which tore a
\* pipeline down, has gone through removeSource
C11_Witness ==
    \E t \in Threads :
        /\ thr[t].op = "unsubscribe" /\ thr[t].idem /\ thr[t].pc = "u_removeSink"
        /\ unsubRet[thr[t].key] = "torn"
        /\ \E d \in DOMAIN sink : sink[d].state = "destroyed" /\ dlog[d] # <<>>

\* the number of invocations of registration i with value v made by sink d
Invocations(d, i, v) ==
    Cardinality({p \in DOMAIN dlog[d] : dlog[d][p] = <<i, v>>})

\* the invocations made so far for the batch sink d's worker is dispatching
\* are those of the loop nest, none skipped
NestSoFar(d) ==
    LET n == Len(task[d].values)
        cnt == (task[d].ci - 1) * n + (task[d].vi - 1)
        L == Len(dlog[d])
    IN /\ cnt <= L
       /\ \A p \in 1..cnt :
            dlog[d][L - cnt + p] =
               <<((p - 1) \div n) + 1, task[d].values[((p - 1) % n) + 1]>>

\* C12: when a consumer invocation throws, the dispatch still makes every
\* invocation of the loop nest (the same consumer's remaining values, every
\* later consumer's values) before the batch is left; the worker stays in its
\* loop and ends only when a drain reported stopped or an object cannot be
\* resolved; the value is not passed to that registration again; and the
\* enqueue that appended it keeps its successful result.
C12_FailureContained ==
    /\ [](\A d \in DOMAIN task : task[d].pc = "invoke" => NestSoFar(d))
    /\ [][\A d \in DOMAIN task :
             /\ (flog' # flog /\ task'[d] # task[d]) => task'[d].pc = "invoke"
             /\ (task[d].pc = "invoke" /\ task'[d].pc # "invoke") =>
                   /\ task[d].values # <<>> => task[d].ci = Len(sink[d].consumers_) + 1
                   /\ task'[d].pc = "iterationEnd"
             /\ (task[d].pc = "iterationEnd" /\ task'[d] # task[d]) =>
                   task'[d].pc = IF task[d].stopped THEN "exited" ELSE "loop"]_vars
    /\ [](\A f \in flog :
            LET e == dlog[f[1]][f[2]]
            IN /\ Invocations(f[1], e[1], e[2]) = 1
               /\ enq[e[2]].res = "ok")
    /\ [][flog' # flog => enq' = enq]_vars

\* a is an initial segment of b
IsPrefix(a, b) == Len(a) <= Len(b) /\ SubSeq(b, 1, Len(a)) = a

\* how many values the subscriber that started sink d's worker has received,
\* and how many were appended to the queue that worker is attached to
CreatorReceived(d) ==
    IF d \in DOMAIN creator /\ creator[d] # None
    THEN Len(RegValues(dlog[d], creator[d])) ELSE 0
CreatorQueued(d) ==
    IF d \in DOMAIN creator /\ creator[d] # None THEN Len(Attached(d)) ELSE 0

\* C13: a step of enqueue changes no dispatcher and no worker, and while
\* nobody has subscribed the values enqueued stay in the queue, undelivered;
\* a subscribe leaves a queue that is in the map where it is, the worker is
\* started after the subscriber is in the consumer list and on the key's
\* queue in the map; the subscriber that started the worker receives the
\* values appended to that queue in the order appended with none skipped, and
\* (unless an unsubscribe is called) eventually all of them, those that were
\* there before it subscribed included.
C13_LazyCreation ==
    /\ [][\A t \in Threads :
             /\ (thr'[t] # thr[t] /\ "enqueue" \in {thr[t].op, thr'[t].op}) =>
                   /\ <<sinks_, sink, dlog>>' = <<sinks_, sink, dlog>>
                   /\ DOMAIN task' = DOMAIN task
                   /\ \A d \in DOMAIN task :
                         task[d].pc = "invalid" => task'[d] = task[d]
             /\ (thr'[t] # thr[t] /\ thr[t].op = "subscribe"
                   /\ sources_[thr[t].key] # None) => sources_' = sources_
             /\ (thr[t].pc = "s_start" /\ thr'[t].pc # "s_start") =>
                   /\ thr[t].reg[1] = thr[t].snk
                   /\ sink[thr[t].snk].consumers_[thr[t].reg[2]] = thr[t].cons
                   /\ task[thr[t].snk].pc = "invalid"
                   /\ task'[thr[t].snk].pc = "loop"
                   /\ task'[thr[t].snk].sourceWeak = sources_[thr[t].key]]_vars
    /\ [](ncalls.subscribe = 0 =>
            /\ sink = <<>> /\ task = <<>>
            /\ \A s \in DOMAIN source : source[s].values_ = appended[s])
    /\ [](\A d \in DOMAIN creator :
            creator[d] # None =>
                IsPrefix(RegValues(dlog[d], creator[d]), Attached(d)))
    /\ (\E d \in SinkIds : CreatorReceived(d) < CreatorQueued(d))
          ~> \/ \A d \in SinkIds : CreatorReceived(d) = CreatorQueued(d)
             \/ ncalls.unsubscribe > 0

\* two values were enqueued, then the first subscribe was called (it has not
\* returned yet), and its consumer has received both in order
C13_Witness ==
    \E t \in Threads :
        /\ thr[t].op = "subscribe" /\ thr[t].pc = "s_return" /\ thr[t].created
        /\ ncalls = [enqueue |-> 2, subscribe |-> 1, unsubscribe |-> 0]
        /\ \A u \in Threads \ {t} : thr[u].pc = "idle"
        /\ dlog[thr[t].snk] = <<<<thr[t].reg[2], 1>>, <<thr[t].reg[2], 2>>>>

\* C16: with the calls on the key made one after the other and consumers
\* that return, every unsubscribe that is called returns, however the worker
\* is scheduled.
C16_UnsubscribeTerminates ==
    \A t \in Threads : (thr[t].op = "unsubscribe") ~> (thr[t].pc = "idle")

\* an unsubscribe has returned after waiting for a worker that exited
\* without having had anything to deliver
C16_Witness ==
    /\ \A t \in Threads : thr[t].pc = "idle"
    /\ \E k \in Keys : unsubRet[k] = "torn"
    /\ \E d \in DOMAIN task :
          task[d].pc = "exited" /\ sink[d].state = "destroyed" /\ dlog[d] = <<>>

\* C14: a running worker ends only at the top of its loop, when its queue or
\* its broadcaster cannot be resolved, or at the end of an iteration whose
\* drain reported stopped, after the dispatch of the batch of that drain has
\* returned; and when it ends its queue is not both in the map and not
\* stopped.
C14_WorkerExitCondition ==
    [][\A d \in DOMAIN task :
          (TaskRunning(d) /\ task'[d].pc = "exited") =>
              /\ \/ task[d].pc = "loop" /\ ~SourceAlive(task[d].sourceWeak)
                 \/ task[d].pc = "loop" /\ sink[d].state # "alive"
                 \/ /\ task[d].pc = "iterationEnd" /\ task[d].stopped
                    /\ source[task[d].source].stopped_
                    /\ NestSoFar(d)
              /\ ~ /\ \E k \in Keys : sources_[k] = task[d].sourceWeak
                   /\ ~source[task[d].sourceWeak].stopped_]_vars

\* positions of value v among the values appended to queue s
AppendedAt(s, v) == {p \in DOMAIN appended[s] : appended[s][p] = v}

\* C15: a stopped queue stays stopped, nothing is appended to it and its
\* buffer never grows; an enqueue on a stopped queue fails with Stopped and
\* leaves the queue as it is, an enqueue on a queue not yet stopped appends its
\* value at the end and succeeds; so every enqueue that has returned has either
\* appended its value (once, to the queue it was given) or failed, never both
\* and never neither; and stop on a stopped queue changes nothing.
C15_StoppedRejectsPushes ==
    /\ [][\A s \in DOMAIN source :
             source[s].stopped_ =>
                 /\ source'[s].stopped_
                 /\ appended'[s] = appended[s]
                 /\ Len(source'[s].values_) <= Len(source[s].values_)]_vars
    /\ [][\A t \in Threads :
             (thr[t].pc = "e_enqueue" /\ thr'[t].pc # "e_enqueue") =>
                 LET s == thr[t].src
                     v == thr[t].val
                 IN IF source[s].stopped_
                    THEN enq'[v].res = "Stopped" /\ source'[s] = source[s]
                    ELSE /\ enq'[v].res = "ok"
                         /\ source'[s].values_ = Append(source[s].values_, v)
                         /\ ~source'[s].stopped_]_vars
    /\ [](\A v \in DOMAIN enq :
            /\ enq[v].res = "ok" =>
                  /\ Cardinality(AppendedAt(enq[v].src, v)) = 1
                  /\ \A s \in DOMAIN source : s # enq[v].src => AppendedAt(s, v) = {}
            /\ enq[v].res # "ok" => \A s \in DOMAIN source : AppendedAt(s, v) = {})
    /\ [](\A s \in DOMAIN source :
            /\ stop(stop(source, s), s) = stop(source, s)
            /\ source[s].stopped_ => stop(source, s) = source)

\* of two enqueues given the same queue object, one appended its value
\* before an unsubscribe stopped the queue and the other failed after the
\* stop, before that unsubscribe erased the queue from the map
C15_Witness ==
    \E v \in DOMAIN enq, w \in DOMAIN enq :
        /\ enq[v].res = "ok" /\ enq[w].res = "Stopped" /\ enq[w].raced
        /\ enq[v].src = enq[w].src
        /\ source[enq[v].src].stopped_
        /\ appended[enq[v].src] = <<v>>
        /\ \E k \in Keys : sources_[k] = enq[w].src
        /\ \E t \in Threads : thr[t].pc = "u_erase"

\* C17: no subscribe is ever kept waiting until the key's queue is stopped by
\* a later call: a subscribe never runs ~MqmActiveSink (whose ~future blocks)
\* for a worker that is itself blocked in cv_.wait of a queue that is not
\* stopped. (The claim's last sentence; the claim also says that a subscribe
\* never waits for a worker at all.)
C17_SubscribeNeverBlocksOnWorker ==
    \A t \in Threads :
        ~ /\ thr[t].pc = "s_join"
          /\ task[thr[t].snk].pc = "wait"
          /\ ~source[task[thr[t].snk].source].stopped_

\* the key of the call thread t takes a step of
StepKey(t) == IF thr[t].pc = "idle" THEN thr'[t].key ELSE thr[t].key

\* C18: a step of a call on key K (its beginning and its return included)
\* leaves, for every other key, the entry of both maps, every queue object
\* (buffer, stopped flag), every dispatcher (consumer list) with its worker,
\* and what was delivered through it as they are; and every value a
\* dispatcher passes to its consumers, every value in a queue and the queue a
\* worker is attached to belong to the dispatcher's (queue's) own key.
C18_KeyIndependence ==
    /\ [][\A t \in Threads :
             thr'[t] # thr[t] =>
                 \A k2 \in Keys \ {StepKey(t)} :
                     /\ sources_'[k2] = sources_[k2]
                     /\ sinks_'[k2] = sinks_[k2]
                     /\ \A s \in DOMAIN source :
                           source[s].key = k2 =>
                               source'[s] = source[s] /\ appended'[s] = appended[s]
                     /\ \A d \in DOMAIN sink :
                           sink[d].key = k2 =>
                               /\ sink'[d] = sink[d]
                               /\ task'[d] = task[d]
                               /\ dlog'[d] = dlog[d]]_vars
    /\ [](/\ \A d \in DOMAIN dlog : \A p \in DOMAIN dlog[d] :
               enq[dlog[d][p][2]].key = sink[d].key
          /\ \A s \in DOMAIN source : \A p \in DOMAIN appended[s] :
               enq[appended[s][p]].key = source[s].key
          /\ \A d \in DOMAIN task :
               task[d].sourceWeak # None =>
                   source[task[d].sourceWeak].key = sink[d].key)

\* each of the two keys has its own queue and dispatcher in the maps, and
\* each dispatcher has delivered the value enqueued under its key
C18_Witness ==
    /\ \A k \in Keys : sources_[k] # None /\ sinks_[k] # None
    /\ sinks_[1] # sinks_[2] /\ sources_[1] # sources_[2]
    /\ \A k \in Keys : Len(dlog[sinks_[k]]) = 1

====
